---- MODULE Spec2Model ----
(***************************************************************************)
(* A model of backend/main.py: the BPM service's two request handlers,     *)
(* bpm_from_url and bpm_from_upload, and the helpers they call.            *)
(*                                                                         *)
(* Strings are sequences of one-character strings ("a.wav" is              *)
(* <<"a", ".", "w", "a", "v">>), so that the regular expression of         *)
(* _is_direct_media and pathlib's name/suffix are computed, not assumed.   *)
(* Diagnostic texts are sequences of tokens; the substring test            *)
(* `"FFmpeg" in err` is the test that one token is "FFmpeg".               *)
(***************************************************************************)
EXTENDS Integers, Sequences, FiniteSets, TLC

VARIABLES
    kind,       \* which handler serves the request: "url" or "upload"
    pc,         \* the handler's position
    url,        \* body.url, and after line 176 the stripped url
    filename,   \* file.filename of the upload (None or a string)
    upload,     \* the content of the uploaded byte stream
    ffmpeg,     \* whether FFMPEG_EXE can be run on this host
    dirs,       \* the temporary directories that exist: name -> (file name -> content)
    workdir,    \* the handler's workdir (0 before tempfile.mkdtemp)
    in_path,    \* the name, inside workdir, of the file handed to _ensure_wav
    direct,     \* the result of _is_direct_media(url), once computed
    pending,    \* the value being returned or the exception being raised
    resp,       \* what the handler produced for the caller
    calls,      \* the stage operations invoked so far, with their results
    acquired,   \* the content of the acquired media, once acquired
    exception,  \* str(e) of the exception raised in the request, if any
    classified, \* the result of the classifier run on its own
    running,    \* the request whose handler the variables above belong to
    parked,     \* the other requests in flight: request -> its handler's variables
    info        \* what _preflight_head returned as info, once it returned

vars == <<kind, pc, url, filename, upload, ffmpeg, dirs, workdir, in_path,
          direct, pending, resp, calls, acquired, exception, classified,
          running, parked, info>>

----------------------------------------------------------------------------
(* Bounds of the model *)

\* The longest URL the classifier is run on, on its own.
MaxUrlLen == 5

\* The number of names tempfile.mkdtemp may choose from.
MaxDirs == 2

\* The number of requests in flight at the same time.
MaxRequests == 2

----------------------------------------------------------------------------
(* Characters and strings *)

LowerChars ==
    {"a","b","c","d","e","f","g","h","i","j","k","l","m",
     "n","o","p","q","r","s","t","u","v","w","x","y","z"}

UpperChars ==
    {"A","B","C","D","E","F","G","H","I","J","K","L","M",
     "N","O","P","Q","R","S","T","U","V","W","X","Y","Z"}

DigitChars == {"0","1","2","3","4","5","6","7","8","9"}

\* str.lower() on one character.
LowerOf ==
    [c \in UpperChars |->
        CASE c = "A" -> "a" [] c = "B" -> "b" [] c = "C" -> "c" [] c = "D" -> "d"
          [] c = "E" -> "e" [] c = "F" -> "f" [] c = "G" -> "g" [] c = "H" -> "h"
          [] c = "I" -> "i" [] c = "J" -> "j" [] c = "K" -> "k" [] c = "L" -> "l"
          [] c = "M" -> "m" [] c = "N" -> "n" [] c = "O" -> "o" [] c = "P" -> "p"
          [] c = "Q" -> "q" [] c = "R" -> "r" [] c = "S" -> "s" [] c = "T" -> "t"
          [] c = "U" -> "u" [] c = "V" -> "v" [] c = "W" -> "w" [] c = "X" -> "x"
          [] c = "Y" -> "y" [] c = "Z" -> "z"]

LowerChar(c) == IF c \in UpperChars THEN LowerOf[c] ELSE c

\* str.lower()
Lower(s) == [i \in 1..Len(s) |-> LowerChar(s[i])]

\* [a-z0-9] under re.IGNORECASE
IsAlnum(c) == c \in LowerChars \cup UpperChars \cup DigitChars

\* str.strip(): leading and trailing whitespace removed.
IsSpace(c) == c \in {" ", "\t", "\n", "\r"}

RECURSIVE LStrip(_)
LStrip(s) == IF s # <<>> /\ IsSpace(s[1]) THEN LStrip(Tail(s)) ELSE s

RECURSIVE RStrip(_)
RStrip(s) ==
    IF s # <<>> /\ IsSpace(s[Len(s)]) THEN RStrip(SubSeq(s, 1, Len(s) - 1)) ELSE s

Strip(s) == RStrip(LStrip(s))

----------------------------------------------------------------------------
(* The source classifier *)

DIRECT_MEDIA_EXT ==
    { <<".","m","p","4">>, <<".","m","o","v">>, <<".","w","a","v">>,
      <<".","m","p","3">>, <<".","a","a","c">>, <<".","f","l","a","c">>,
      <<".","m","4","a">>, <<".","o","g","g">>, <<".","w","e","b","m">>,
      <<".","m","k","v">>, <<".","a","v","i">> }

\* (?:\?|#|$) at position j of u: a '?', a '#', or the end of the string.
\* (Python's $ also matches before a final newline; a stripped url has none.)
ExtEndsAt(u, j) ==
    \/ j = Len(u) + 1
    \/ j <= Len(u) /\ u[j] \in {"?", "#"}
    \/ j = Len(u) /\ u[j] = "\n"

\* The lengths n in 2..4 for which (\.[a-z0-9]{n})(?:\?|#|$) matches at i.
ExtMatchLens(u, i) ==
    { n \in 2..4 :
        /\ i + n <= Len(u)
        /\ u[i] = "."
        /\ \A k \in 1..n : IsAlnum(u[i + k])
        /\ ExtEndsAt(u, i + n + 1) }

\* The positions where the pattern matches; re.search takes the leftmost.
ExtMatchStarts(u) == { i \in 1..Len(u) : ExtMatchLens(u, i) # {} }

Min(S) == CHOOSE x \in S : \A y \in S : x <= y
Max(S) == CHOOSE x \in S : \A y \in S : x >= y

\* m.group(1) of re.search(r"(\.[a-z0-9]{2,4})(?:\?|#|$)", url, re.IGNORECASE);
\* <<>> when there is no match.  {2,4} is greedy: the longest length first.
ExtSearch(u) ==
    IF ExtMatchStarts(u) = {} THEN <<>>
    ELSE LET i == Min(ExtMatchStarts(u))
             n == Max(ExtMatchLens(u, i))
         IN  SubSeq(u, i, i + n)

_is_direct_media(u) ==
    LET g == ExtSearch(u)
    IN  IF g = <<>> THEN FALSE ELSE Lower(g) \in DIRECT_MEDIA_EXT

----------------------------------------------------------------------------
(* Paths *)

\* The index of the last c in s, 0 when there is none (str.rfind + 1).
RFind(s, c) ==
    IF \E i \in 1..Len(s) : s[i] = c
    THEN Max({ i \in 1..Len(s) : s[i] = c })
    ELSE 0

\* Path(s).name for a relative path s without "." components and without a
\* trailing "/": the part after the last "/".
PathName(s) == SubSeq(s, RFind(s, "/") + 1, Len(s))

\* Path.suffix of a file name: from the last "." on, when that "." is neither
\* the first nor the last character of the name.
PathSuffix(name) ==
    LET i == RFind(name, ".")
    IN  IF 0 < i - 1 /\ i < Len(name) THEN SubSeq(name, i, Len(name)) ELSE <<>>

INPUT == <<"i","n","p","u","t">>

AUDIO_WAV == <<"a","u","d","i","o",".","w","a","v">>

DOT_WAV == <<".","w","a","v">>

\* tmp_dir / "audio.%(ext)s" with the extension the extractor chose.
AudioDot(ext) == <<"a","u","d","i","o",".">> \o ext

----------------------------------------------------------------------------
(* File contents *)

\* A file's content: its container format, whether it holds audio samples,
\* and who encoded it.  Two contents are the same bytes iff they are equal.
NoBytes == [fmt |-> "none", samples |-> 0, enc |-> "none"]

Wave(n) == [fmt |-> "wav", samples |-> n, enc |-> "source"]

Compressed(n) == [fmt |-> "mp3", samples |-> n, enc |-> "source"]

Junk == [fmt |-> "junk", samples |-> 0, enc |-> "source"]

\* The marker of "no media acquired yet" (no file has this content).
Unset == [fmt |-> "unset", samples |-> 0, enc |-> "none"]

\* os.stat(...).st_size == 0
IsZeroByte(c) == c.fmt = "none"

\* What ffmpeg -acodec pcm_s16le -ar 44100 writes for a decodable input.
Transcode(c) == [fmt |-> "wav", samples |-> c.samples, enc |-> "ffmpeg"]

\* Whether ffmpeg finds an audio stream to convert in c.
Decodable(c) == c.fmt \in {"wav", "mp3"} /\ (c.fmt = "mp3" => c.samples > 0)

\* The media a remote server or the extractor may deliver.
MediaContents == {NoBytes, Wave(1), Wave(0), Compressed(1), Compressed(0), Junk}

\* files with name set to c (open(name, "wb") and the writes).
WriteFile(files, name, c) ==
    [n \in DOMAIN files \cup {name} |-> IF n = name THEN c ELSE files[n]]

NoFiles == [n \in {} |-> NoBytes]

----------------------------------------------------------------------------
(* Texts: the messages of the handlers and the diagnostics of the tools *)

MsgLink == "Impossible d'extraire l'audio depuis ce lien."

MsgFile == "Impossible d'extraire l'audio depuis ce fichier."

MsgNoAudio == "Cette vidéo ne contient pas d'audio."

MsgTempo == "Impossible de détecter un tempo clair."

MsgUrlMissing == "URL manquante."

\* "FFmpeg non installé."
TxtFFmpegMissing == <<"FFmpeg", " non installé.">>

\* "FFmpeg requis pour conversion."
TxtFFmpegRequired == <<"FFmpeg", " requis pour conversion.">>

TxtNoFile == <<"Aucun fichier audio téléchargé.">>

\* `"FFmpeg" in err`
ContainsFFmpeg(err) == \E i \in 1..Len(err) : err[i] = "FFmpeg"

\* `a or b` on two strings
StrOr(a, b) == IF a # <<>> THEN a ELSE b

\* What a failing ffmpeg run leaves on (stderr, stdout).  ffmpeg prints its
\* banner, "... Copyright (c) 2000-2024 the FFmpeg developers", on stderr
\* unless it was built or wrapped not to.
FfmpegDiagnostics ==
    { <<<<"ffmpeg version 6.0 Copyright (c) the ", "FFmpeg", " developers",
          " Invalid data found when processing input">>, <<>>>>,
      <<<<"Invalid data found when processing input">>, <<>>>>,
      <<<<>>, <<"Conversion failed!">>>> }

\* What a failing yt-dlp run leaves on (stderr, stdout).
YtdlpDiagnostics ==
    { <<<<"ERROR: Unsupported URL">>, <<>>>>,
      <<<<>>, <<"[generic] Extracting URL">>>>,
      <<<<>>, <<>>>> }

\* str(e) of the errors requests raises.
RequestErrors == { <<"ConnectTimeout">>, <<"ConnectionError">> }

----------------------------------------------------------------------------
(* The helpers.  A helper that depends on the network, on a tool or on the   *)
(* decoder is the set of the results it may produce: what it returns or the  *)
(* exception it raises, the files it leaves, and the stage operations it     *)
(* invoked (op), how each ended (res: "ok", "fail", or "raise" for an        *)
(* exception) and the diagnostic text it gave.                               *)

Call(op, res, text) == [op |-> op, res |-> res, text |-> text]

\* How an operation ended, from its ok flag and whether an exception was caught.
Ended(ok, exc) == IF ok THEN "ok" ELSE IF exc THEN "raise" ELSE "fail"

\* None, and a value v, of an Optional
None == <<>>
Some(v) == <<v>>

_has_ffmpeg == ffmpeg

\* shutil.copy2(input_path, out_wav) in the directory holding `files`
EnsureWavCopy(input_path, out_wav, files) ==
    IF input_path \notin DOMAIN files
    THEN { [raised |-> TRUE, ok |-> FALSE, err |-> <<"FileNotFoundError">>,
            files |-> files, ops |-> <<Call("COPY", "raise", <<"FileNotFoundError">>)>>] }
    ELSE IF input_path = out_wav
    THEN { [raised |-> TRUE, ok |-> FALSE, err |-> <<"SameFileError">>,
            files |-> files, ops |-> <<Call("COPY", "raise", <<"SameFileError">>)>>] }
    ELSE { [raised |-> FALSE, ok |-> TRUE, err |-> <<>>,
            files |-> WriteFile(files, out_wav, files[input_path]),
            ops |-> <<Call("COPY", "ok", <<>>)>>] }

\* _run([FFMPEG_EXE, "-y", "-i", input_path, ..., out_wav]) and lines 143-145:
\* ffmpeg may exit non-zero on any input; on an input with an audio stream it
\* may exit 0, leaving the converted file or, cut short, a zero-byte one.
EnsureWavTranscode(input_path, out_wav, files) ==
    { [raised |-> FALSE, ok |-> FALSE, err |-> StrOr(d[1], d[2]), files |-> files,
       ops |-> <<Call("FFMPEG_VERSION", "ok", <<>>),
                Call("FFMPEG", "fail", StrOr(d[1], d[2]))>>]
        : d \in FfmpegDiagnostics }
    \cup
    IF input_path \in DOMAIN files /\ Decodable(files[input_path])
    THEN { [raised |-> FALSE, ok |-> TRUE, err |-> <<>>,
            files |-> WriteFile(files, out_wav, c),
            ops |-> <<Call("FFMPEG_VERSION", "ok", <<>>), Call("FFMPEG", "ok", <<>>)>>]
            : c \in {Transcode(files[input_path]), NoBytes} }
    ELSE {}

_ensure_wav(input_path, out_wav, files) ==
    IF Lower(PathSuffix(input_path)) = DOT_WAV
    THEN EnsureWavCopy(input_path, out_wav, files)
    ELSE IF ~_has_ffmpeg
    THEN { [raised |-> FALSE, ok |-> FALSE, err |-> TxtFFmpegMissing,
            files |-> files,
            ops |-> <<Call("FFMPEG_VERSION", "fail", TxtFFmpegMissing)>>] }
    ELSE EnsureWavTranscode(input_path, out_wav, files)

\* What yt-dlp may write: the extension it chose for audio.%(ext)s, and the
\* content.  A wave stream is written as audio.wav, another one as audio.webm;
\* a run cut short leaves a file of either name empty or truncated.
ExtractorOutputs ==
    ({ <<"w","a","v">> } \X { Wave(1), Wave(0), NoBytes, Junk })
    \cup
    ({ <<"w","e","b","m">> } \X { Compressed(1), Compressed(0), NoBytes, Junk })

\* What _download_with_ytdlp does with the file yt-dlp produced (lines 76-79).
YtdlpNormalize(produced, out_wav, files) ==
    { [raised |-> o.raised, ok |-> o.ok, err |-> o.err, files |-> o.files,
       ops |-> <<Call("YTDLP", "ok", <<>>)>> \o o.ops, media |-> files[produced],
       produced |-> Some(produced)]
        : o \in _ensure_wav(produced, out_wav, files) }

_download_with_ytdlp(u, out_wav, files) ==
    \* proc.returncode != 0
    { [raised |-> FALSE, ok |-> FALSE, err |-> StrOr(d[1], d[2]), files |-> files,
       ops |-> <<Call("YTDLP", "fail", StrOr(d[1], d[2]))>>, media |-> Unset,
       produced |-> None]
        : d \in YtdlpDiagnostics }
    \cup
    \* exit 0 and no audio.* file
    { [raised |-> FALSE, ok |-> FALSE, err |-> TxtNoFile, files |-> files,
       ops |-> <<Call("YTDLP", "fail", TxtNoFile)>>, media |-> Unset,
       produced |-> None] }
    \cup
    \* exit 0 and one file audio.<ext>
    UNION { YtdlpNormalize(AudioDot(x[1]), out_wav, WriteFile(files, AudioDot(x[1]), x[2]))
            : x \in ExtractorOutputs }

\* The status codes a HEAD may answer with.
StatusCodes == {200, 404, 503}

HeadInfos ==
    { [content_type |-> "audio/mpeg", content_length |-> "1024"],
      [content_type |-> "text/html", content_length |-> ""] }

NoInfo == [content_type |-> "", content_length |-> ""]

\* One answered HEAD (lines 117-123)
PreflightAnswer(status, headers) ==
    IF status >= 400
    THEN [ok |-> FALSE, err |-> <<"HTTP ", ToString(status)>>, info |-> NoInfo,
          exc |-> FALSE]
    ELSE [ok |-> TRUE, err |-> <<>>, info |-> headers, exc |-> FALSE]

_preflight_head(u) ==
    { PreflightAnswer(x[1], x[2]) : x \in StatusCodes \X HeadInfos }
    \cup
    \* requests.head raised: line 124
    { [ok |-> FALSE, err |-> e, info |-> NoInfo, exc |-> TRUE] : e \in RequestErrors }

_http_download(u, out_path, files) ==
    { [ok |-> TRUE, err |-> <<>>, files |-> WriteFile(files, out_path, c), media |-> c]
        : c \in MediaContents }
    \cup
    \* raise_for_status, or an error before the file is opened
    { [ok |-> FALSE, err |-> e, files |-> files, media |-> Unset]
        : e \in RequestErrors \cup { <<"404 Client Error">> } }
    \cup
    \* an error while the body is read: the file is left truncated
    { [ok |-> FALSE, err |-> <<"ReadTimeout">>,
       files |-> WriteFile(files, out_path, Junk), media |-> Unset] }

\* round(x, digits): x in units of 10^-(digits+1), the result in units of
\* 10^-digits, halves to the even neighbour.
RoundHalfEven(x) ==
    LET q == x \div 10
        r == x % 10
    IN  IF r > 5 \/ (r = 5 /\ q % 2 = 1) THEN q + 1 ELSE q

\* The tempi librosa.beat.beat_track may return, in thousandths of a BPM.
Tempos == {0, 120000, 128125}

\* The confidences line 160 may compute, in ten-thousandths; None when
\* onset_strength raises.
Confidences == {None, Some(0), Some(9995)}

\* librosa.load on the file, when it decodes: the number of samples.
Loadable(files, wav_path) ==
    wav_path \in DOMAIN files /\ files[wav_path].fmt \in {"wav", "mp3"}

\* Lines 154-163: what _analyze_bpm returns for the tempo and confidence.
AnalyzeTempo(tempo, confidence) ==
    IF tempo <= 0
    THEN [bpm |-> None, conf |-> None, err |-> <<MsgTempo>>, exc |-> FALSE]
    ELSE [bpm |-> Some(tempo), conf |-> confidence, err |-> <<>>, exc |-> FALSE]

_analyze_bpm(wav_path, files) ==
    IF ~Loadable(files, wav_path)
    \* librosa.load raised: line 164
    THEN { [bpm |-> None, conf |-> None, err |-> <<"LibsndfileError">>, exc |-> TRUE] }
    ELSE IF files[wav_path].samples = 0
    THEN { [bpm |-> None, conf |-> None, err |-> <<MsgNoAudio>>, exc |-> FALSE] }
    \* beat_track raised: line 164
    ELSE { [bpm |-> None, conf |-> None, err |-> <<"ParameterError">>, exc |-> TRUE] }
         \cup
         { AnalyzeTempo(x[1], x[2]) : x \in Tempos \X Confidences }

----------------------------------------------------------------------------
(* The requests *)

\* body.url of the requests to /bpm/url: "", " ", "a.mp3", " b.wav ",
\* "v/w" and "w?f=c.wav"
Urls ==
    { <<>>, <<" ">>, <<"a",".","m","p","3">>,
      <<" ","b",".","w","a","v"," ">>,
      <<"v","/","w">>, <<"w","?","f","=","c",".","w","a","v">> }

\* file.filename of the requests to /bpm/upload: None, "", "a.mp3", "b.WAV",
\* "audio.wav", "d/e.wav" and ".."
Filenames ==
    { None, Some(<<>>), Some(<<"a",".","m","p","3">>), Some(<<"b",".","W","A","V">>),
      Some(AUDIO_WAV), Some(<<"d","/","e",".","w","a","v">>), Some(<<".",".">>) }

\* The names under workdir that open(..., "wb") cannot create.
IsDirectoryName(name) == name = <<".",".">>

NoPending == [type |-> "none"]

Return(body) == [type |-> "return", body |-> body]

Raise(text) == [type |-> "raise", text |-> text]

NoResp == [type |-> "none"]

\* The dict a handler returns, as the caller gets it.
Json(body) == [type |-> "json", body |-> body]

\* HTTPException(status_code=400, detail={"error": "URL manquante."})
HTTPException(status_code, detail) ==
    [type |-> "http_exception", status_code |-> status_code, detail |-> detail]

\* MkdtempNames of a mkdtemp that may return a name already in use.
MkdtempNames_Reused == 1..MaxDirs

\* tempfile.mkdtemp: a directory that did not exist, now empty.
MkdtempNames == (1..MaxDirs) \ DOMAIN dirs

MakeDir(d) == [x \in DOMAIN dirs \cup {d} |-> IF x = d THEN NoFiles ELSE dirs[x]]

\* the files of workdir replaced by `files`
SetFiles(files) == [dirs EXCEPT ![workdir] = files]

\* shutil.rmtree(workdir, ignore_errors=True), on a directory the process
\* owns: the tree is removed.
RmTree(d) == [x \in DOMAIN dirs \ {d} |-> dirs[x]]

\* resp = {"bpm": round(bpm, 2)}, and "confidence": round(conf, 3) when there is one
SuccessBody(bpm, conf) ==
    IF conf = None
    THEN [bpm |-> RoundHalfEven(bpm)]
    ELSE [bpm |-> RoundHalfEven(bpm), confidence |-> RoundHalfEven(conf[1])]

\* Lines 206-211 and 244-249: the response after _analyze_bpm returned r.
AnalyzeReturn(r) ==
    IF r.bpm = None
    THEN Return([error |-> MsgTempo, details |-> r.err])
    ELSE Return(SuccessBody(r.bpm[1], r.conf))

\* EnsureWavFailed with the text of the details given as the error.
EnsureWavFailed_TextAsError(msg, err) ==
    IF ContainsFFmpeg(err)
    THEN Return([error |-> "FFmpeg requis pour conversion."])
    ELSE Return([error |-> MsgTempo, details |-> err])

\* What the handler does when _ensure_wav returned (False, err): lines 193-196
\* of bpm_from_url (msg the link message), 239-242 of bpm_from_upload (msg
\* the file message).
EnsureWavFailed(msg, err) ==
    IF ContainsFFmpeg(err)
    THEN Return([error |-> msg, details |-> TxtFFmpegRequired])
    ELSE Return([error |-> MsgTempo, details |-> err])

----------------------------------------------------------------------------
(* POST /bpm/url *)

\* Lines 176-178: strip the url; an empty one is refused with HTTP 400, which
\* line 217-218 lets through.
UrlStrip ==
    /\ kind = "url" /\ pc = "start"
    /\ url' = Strip(url)
    /\ IF Strip(url) = <<>>
       THEN /\ resp' = HTTPException(400, [error |-> MsgUrlMissing])
            /\ pc' = "done"
       ELSE /\ resp' = resp
            /\ pc' = "mkdtemp"
    /\ UNCHANGED <<kind, filename, upload, ffmpeg, dirs, workdir, in_path, direct,
                   pending, calls, acquired, exception, classified,
                   running, parked, info>>

\* Lines 180-182: the workdir; an OSError of mkdtemp reaches line 219.
UrlMkdtemp ==
    /\ kind = "url" /\ pc = "mkdtemp"
    /\ \/ \E d \in MkdtempNames :
            /\ dirs' = MakeDir(d)
            /\ workdir' = d
            /\ in_path' = INPUT
            /\ pc' = "classify"
            /\ UNCHANGED <<resp, exception>>
       \/ /\ resp' = Json([error |-> MsgLink, details |-> <<"OSError">>])
          /\ exception' = Some(<<"OSError">>)
          /\ pc' = "done"
          /\ UNCHANGED <<dirs, workdir, in_path>>
    /\ UNCHANGED <<kind, url, filename, upload, ffmpeg, direct, pending, calls,
                   acquired, classified, running, parked, info>>

\* Line 185: the strategy.
UrlClassify ==
    /\ kind = "url" /\ pc = "classify"
    /\ direct' = Some(_is_direct_media(url))
    /\ pc' = IF _is_direct_media(url) THEN "preflight" ELSE "ytdlp"
    /\ UNCHANGED <<kind, url, filename, upload, ffmpeg, dirs, workdir, in_path,
                   pending, resp, calls, acquired, exception, classified,
                   running, parked, info>>

\* UrlPreflight without the return of line 188: a failed HEAD is followed by
\* the GET.
UrlPreflight_Ignored ==
    /\ kind = "url" /\ pc = "preflight"
    /\ \E r \in _preflight_head(url) :
        /\ calls' = Append(calls, Call("HEAD", Ended(r.ok, r.exc), r.err))
        /\ exception' = IF r.exc THEN Some(r.err) ELSE exception
        /\ info' = r.info
        /\ pending' = pending
        /\ pc' = "download"
    /\ UNCHANGED <<kind, url, filename, upload, ffmpeg, dirs, workdir, in_path,
                   direct, resp, acquired, classified, running, parked>>

\* UrlPreflight with the download gated by the advisory metadata: an answer
\* whose Content-Type is not a media type is treated as a failed preflight.
UrlPreflight_TypeGated ==
    /\ kind = "url" /\ pc = "preflight"
    /\ \E r \in _preflight_head(url) :
        /\ calls' = Append(calls, Call("HEAD", Ended(r.ok, r.exc), r.err))
        /\ exception' = IF r.exc THEN Some(r.err) ELSE exception
        /\ info' = r.info
        /\ IF ~r.ok \/ r.info.content_type = "text/html"
           THEN /\ pending' = Return([error |-> MsgLink,
                                      details |-> <<"Pré-vérification échouée: ">> \o r.err])
                /\ pc' = "finally"
           ELSE /\ pending' = pending
                /\ pc' = "download"
    /\ UNCHANGED <<kind, url, filename, upload, ffmpeg, dirs, workdir, in_path,
                   direct, resp, acquired, classified, running, parked>>

\* Lines 186-188
UrlPreflight ==
    /\ kind = "url" /\ pc = "preflight"
    /\ \E r \in _preflight_head(url) :
        /\ calls' = Append(calls, Call("HEAD", Ended(r.ok, r.exc), r.err))
        /\ exception' = IF r.exc THEN Some(r.err) ELSE exception
        /\ info' = r.info
        /\ IF ~r.ok
           THEN /\ pending' = Return([error |-> MsgLink,
                                      details |-> <<"Pré-vérification échouée: ">> \o r.err])
                /\ pc' = "finally"
           ELSE /\ pending' = pending
                /\ pc' = "download"
    /\ UNCHANGED <<kind, url, filename, upload, ffmpeg, dirs, workdir, in_path,
                   direct, resp, acquired, classified, running, parked>>

\* UrlDownload with a fallback: a failed GET hands the url to the extractor.
UrlDownload_FallsBack ==
    /\ kind = "url" /\ pc = "download"
    /\ \E r \in _http_download(url, in_path, dirs[workdir]) :
        /\ calls' = Append(calls, Call("GET", Ended(r.ok, TRUE), r.err))
        /\ exception' = IF r.ok THEN exception ELSE Some(r.err)
        /\ dirs' = SetFiles(r.files)
        /\ acquired' = r.media
        /\ pending' = pending
        /\ pc' = IF r.ok THEN "ensure_wav" ELSE "ytdlp"
    /\ UNCHANGED <<kind, url, filename, upload, ffmpeg, workdir, in_path, direct,
                   resp, classified, running, parked, info>>

\* UrlDownload with one retry: a GET that failed is issued a second time.
UrlDownload_Retried ==
    /\ kind = "url" /\ pc = "download"
    /\ \E r \in _http_download(url, in_path, dirs[workdir]) :
        /\ calls' = Append(calls, Call("GET", Ended(r.ok, TRUE), r.err))
        /\ exception' = IF r.ok THEN exception ELSE Some(r.err)
        /\ dirs' = SetFiles(r.files)
        /\ acquired' = r.media
        /\ IF ~r.ok /\ calls[Len(calls)].op = "GET"
           THEN /\ pending' = Return([error |-> MsgLink,
                                      details |-> <<"Téléchargement direct: ">> \o r.err])
                /\ pc' = "finally"
           ELSE /\ pending' = pending
                /\ pc' = IF r.ok THEN "ensure_wav" ELSE "download"
    /\ UNCHANGED <<kind, url, filename, upload, ffmpeg, workdir, in_path, direct,
                   resp, classified, running, parked, info>>

\* Lines 189-191
UrlDownload ==
    /\ kind = "url" /\ pc = "download"
    /\ \E r \in _http_download(url, in_path, dirs[workdir]) :
        /\ calls' = Append(calls, Call("GET", Ended(r.ok, TRUE), r.err))
        /\ exception' = IF r.ok THEN exception ELSE Some(r.err)
        /\ dirs' = SetFiles(r.files)
        /\ acquired' = r.media
        /\ IF ~r.ok
           THEN /\ pending' = Return([error |-> MsgLink,
                                      details |-> <<"Téléchargement direct: ">> \o r.err])
                /\ pc' = "finally"
           ELSE /\ pending' = pending
                /\ pc' = "ensure_wav"
    /\ UNCHANGED <<kind, url, filename, upload, ffmpeg, workdir, in_path, direct,
                   resp, classified, running, parked, info>>

\* Lines 192-196
UrlEnsureWav ==
    /\ kind = "url" /\ pc = "ensure_wav"
    /\ \E o \in _ensure_wav(in_path, AUDIO_WAV, dirs[workdir]) :
        /\ calls' = calls \o o.ops
        /\ exception' = IF o.raised THEN Some(o.err) ELSE exception
        /\ dirs' = SetFiles(o.files)
        /\ IF o.raised
           THEN pending' = Raise(o.err) /\ pc' = "finally"
           ELSE IF ~o.ok
           THEN pending' = EnsureWavFailed(MsgLink, o.err) /\ pc' = "finally"
           ELSE pending' = pending /\ pc' = "check_wav"
    /\ UNCHANGED <<kind, url, filename, upload, ffmpeg, workdir, in_path, direct,
                   resp, acquired, classified, running, parked, info>>

\* UrlYtdlp answering a failed extraction as lines 196 and 207 answer theirs.
UrlYtdlp_TempoError ==
    /\ kind = "url" /\ pc = "ytdlp"
    /\ \E o \in _download_with_ytdlp(url, AUDIO_WAV, dirs[workdir]) :
        /\ calls' = calls \o o.ops
        /\ exception' = IF o.raised THEN Some(o.err) ELSE exception
        /\ dirs' = SetFiles(o.files)
        /\ acquired' = o.media
        /\ in_path' = IF o.produced = None THEN in_path ELSE o.produced[1]
        /\ IF o.raised
           THEN pending' = Raise(o.err) /\ pc' = "finally"
           ELSE IF ~o.ok
           THEN /\ pending' = Return([error |-> MsgTempo, details |-> o.err])
                /\ pc' = "finally"
           ELSE pending' = pending /\ pc' = "check_wav"
    /\ UNCHANGED <<kind, url, filename, upload, ffmpeg, workdir, direct,
                   resp, classified, running, parked, info>>

\* Lines 198-200
UrlYtdlp ==
    /\ kind = "url" /\ pc = "ytdlp"
    /\ \E o \in _download_with_ytdlp(url, AUDIO_WAV, dirs[workdir]) :
        /\ calls' = calls \o o.ops
        /\ exception' = IF o.raised THEN Some(o.err) ELSE exception
        /\ dirs' = SetFiles(o.files)
        /\ acquired' = o.media
        /\ in_path' = IF o.produced = None THEN in_path ELSE o.produced[1]
        /\ IF o.raised
           THEN pending' = Raise(o.err) /\ pc' = "finally"
           ELSE IF ~o.ok
           THEN /\ pending' = Return([error |-> MsgLink, details |-> o.err])
                /\ pc' = "finally"
           ELSE pending' = pending /\ pc' = "check_wav"
    /\ UNCHANGED <<kind, url, filename, upload, ffmpeg, workdir, direct,
                   resp, classified, running, parked, info>>

\* Lines 202-203
UrlCheckWav ==
    /\ kind = "url" /\ pc = "check_wav"
    /\ IF \/ AUDIO_WAV \notin DOMAIN dirs[workdir]
          \/ IsZeroByte(dirs[workdir][AUDIO_WAV])
       THEN pending' = Return([error |-> MsgNoAudio]) /\ pc' = "finally"
       ELSE pending' = pending /\ pc' = "analyze"
    /\ UNCHANGED <<kind, url, filename, upload, ffmpeg, dirs, workdir, in_path,
                   direct, resp, calls, acquired, exception, classified,
                   running, parked, info>>

\* Lines 205-211
UrlAnalyze ==
    /\ kind = "url" /\ pc = "analyze"
    /\ \E r \in _analyze_bpm(AUDIO_WAV, dirs[workdir]) :
        /\ calls' = Append(calls, Call("ESTIMATE", Ended(r.bpm # None, r.exc), r.err))
        /\ exception' = IF r.exc THEN Some(r.err) ELSE exception
        /\ pending' = AnalyzeReturn(r)
        /\ pc' = "finally"
    /\ UNCHANGED <<kind, url, filename, upload, ffmpeg, dirs, workdir, in_path,
                   direct, resp, acquired, classified, running, parked, info>>

\* UrlFinally without the `except Exception` of line 219: the exception
\* leaves the handler.
UrlFinally_Propagates ==
    /\ kind = "url" /\ pc = "finally"
    /\ dirs' = RmTree(workdir)
    /\ resp' = IF pending.type = "return"
               THEN Json(pending.body)
               ELSE [type |-> "exception", text |-> pending.text]
    /\ pc' = "done"
    /\ UNCHANGED <<kind, url, filename, upload, ffmpeg, workdir, in_path, direct,
                   pending, calls, acquired, exception, classified,
                   running, parked, info>>

\* Lines 212-220: the finally clause removes the workdir, then the value is
\* returned, or the exception reaches `except Exception` of line 219.
UrlFinally ==
    /\ kind = "url" /\ pc = "finally"
    /\ dirs' = RmTree(workdir)
    /\ resp' = IF pending.type = "return"
               THEN Json(pending.body)
               ELSE Json([error |-> MsgLink, details |-> pending.text])
    /\ pc' = "done"
    /\ UNCHANGED <<kind, url, filename, upload, ffmpeg, workdir, in_path, direct,
                   pending, calls, acquired, exception, classified,
                   running, parked, info>>

bpm_from_url ==
    \/ UrlStrip
    \/ UrlMkdtemp
    \/ UrlClassify
    \/ UrlPreflight
    \/ UrlDownload
    \/ UrlEnsureWav
    \/ UrlYtdlp
    \/ UrlCheckWav
    \/ UrlAnalyze
    \/ UrlFinally

----------------------------------------------------------------------------
(* POST /bpm/upload *)

\* Line 226; an OSError of mkdtemp reaches line 255.
UploadMkdtemp ==
    /\ kind = "upload" /\ pc = "start"
    /\ \/ \E d \in MkdtempNames :
            /\ dirs' = MakeDir(d)
            /\ workdir' = d
            /\ pc' = "in_path"
            /\ UNCHANGED <<resp, exception>>
       \/ /\ resp' = Json([error |-> MsgFile, details |-> <<"OSError">>])
          /\ exception' = Some(<<"OSError">>)
          /\ pc' = "done"
          /\ UNCHANGED <<dirs, workdir>>
    /\ UNCHANGED <<kind, url, filename, upload, ffmpeg, in_path, direct, pending,
                   calls, acquired, classified, running, parked, info>>

\* Lines 227-228, outside the inner try: Path(None) raises a TypeError, which
\* reaches line 255 without passing the finally clause.
UploadInPath ==
    /\ kind = "upload" /\ pc = "in_path"
    /\ IF filename = None
       THEN /\ resp' = Json([error |-> MsgFile, details |-> <<"TypeError">>])
            /\ exception' = Some(<<"TypeError">>)
            /\ pc' = "done"
            /\ in_path' = in_path
       ELSE /\ in_path' = StrOr(PathName(filename[1]), INPUT)
            /\ pc' = "write"
            /\ UNCHANGED <<resp, exception>>
    /\ UNCHANGED <<kind, url, filename, upload, ffmpeg, dirs, workdir, direct,
                   pending, calls, acquired, classified, running, parked, info>>

\* Lines 230-235: the upload is written to in_path, unless open() raises or
\* file.read() raises before the first chunk is written.
UploadWrite ==
    /\ kind = "upload" /\ pc = "write"
    /\ IF IsDirectoryName(in_path)
       THEN /\ pending' = Raise(<<"IsADirectoryError">>)
            /\ exception' = Some(<<"IsADirectoryError">>)
            /\ pc' = "finally"
            /\ UNCHANGED <<dirs, acquired>>
       ELSE \/ /\ dirs' = SetFiles(WriteFile(dirs[workdir], in_path, upload))
               /\ acquired' = upload
               /\ pending' = pending
               /\ exception' = exception
               /\ pc' = "size"
            \/ /\ dirs' = SetFiles(WriteFile(dirs[workdir], in_path, NoBytes))
               /\ pending' = Raise(<<"ClientDisconnect">>)
               /\ exception' = Some(<<"ClientDisconnect">>)
               /\ pc' = "finally"
               /\ acquired' = acquired
    /\ UNCHANGED <<kind, url, filename, upload, ffmpeg, workdir, in_path, direct,
                   resp, calls, classified, running, parked, info>>

\* UploadSize without the test of line 236: an empty upload is normalized.
UploadSize_Unchecked ==
    /\ kind = "upload" /\ pc = "size"
    /\ pending' = pending /\ pc' = "ensure_wav"
    /\ UNCHANGED <<kind, url, filename, upload, ffmpeg, dirs, workdir, in_path,
                   direct, resp, calls, acquired, exception, classified,
                   running, parked, info>>

\* Lines 236-237
UploadSize ==
    /\ kind = "upload" /\ pc = "size"
    /\ IF IsZeroByte(dirs[workdir][in_path])
       THEN pending' = Return([error |-> MsgNoAudio]) /\ pc' = "finally"
       ELSE pending' = pending /\ pc' = "ensure_wav"
    /\ UNCHANGED <<kind, url, filename, upload, ffmpeg, dirs, workdir, in_path,
                   direct, resp, calls, acquired, exception, classified,
                   running, parked, info>>

\* Lines 238-242
UploadEnsureWav ==
    /\ kind = "upload" /\ pc = "ensure_wav"
    /\ \E o \in _ensure_wav(in_path, AUDIO_WAV, dirs[workdir]) :
        /\ calls' = calls \o o.ops
        /\ exception' = IF o.raised THEN Some(o.err) ELSE exception
        /\ dirs' = SetFiles(o.files)
        /\ IF o.raised
           THEN pending' = Raise(o.err) /\ pc' = "finally"
           ELSE IF ~o.ok
           THEN pending' = EnsureWavFailed(MsgFile, o.err) /\ pc' = "finally"
           ELSE pending' = pending /\ pc' = "analyze"
    /\ UNCHANGED <<kind, url, filename, upload, ffmpeg, workdir, in_path, direct,
                   resp, acquired, classified, running, parked, info>>

\* Lines 243-249
UploadAnalyze ==
    /\ kind = "upload" /\ pc = "analyze"
    /\ \E r \in _analyze_bpm(AUDIO_WAV, dirs[workdir]) :
        /\ calls' = Append(calls, Call("ESTIMATE", Ended(r.bpm # None, r.exc), r.err))
        /\ exception' = IF r.exc THEN Some(r.err) ELSE exception
        /\ pending' = AnalyzeReturn(r)
        /\ pc' = "finally"
    /\ UNCHANGED <<kind, url, filename, upload, ffmpeg, dirs, workdir, in_path,
                   direct, resp, acquired, classified, running, parked, info>>

\* Lines 250-256
UploadFinally ==
    /\ kind = "upload" /\ pc = "finally"
    /\ dirs' = RmTree(workdir)
    /\ resp' = IF pending.type = "return"
               THEN Json(pending.body)
               ELSE Json([error |-> MsgFile, details |-> pending.text])
    /\ pc' = "done"
    /\ UNCHANGED <<kind, url, filename, upload, ffmpeg, workdir, in_path, direct,
                   pending, calls, acquired, exception, classified,
                   running, parked, info>>

bpm_from_upload ==
    \/ UploadMkdtemp
    \/ UploadInPath
    \/ UploadWrite
    \/ UploadSize
    \/ UploadEnsureWav
    \/ UploadAnalyze
    \/ UploadFinally

----------------------------------------------------------------------------
(* The specification: one request, to either entry point *)

InitUrl ==
    /\ kind = "url"
    /\ url \in Urls
    /\ filename = None
    /\ upload = Unset

InitUpload ==
    /\ kind = "upload"
    /\ url = <<>>
    /\ filename \in Filenames
    /\ upload \in MediaContents

Init ==
    /\ InitUrl \/ InitUpload
    /\ pc = "start"
    /\ ffmpeg \in BOOLEAN
    /\ dirs = <<>>
    /\ workdir = 0
    /\ in_path = <<>>
    /\ direct = None
    /\ pending = NoPending
    /\ resp = NoResp
    /\ calls = <<>>
    /\ acquired = Unset
    /\ exception = None
    /\ classified = None
    /\ info = NoInfo
    /\ running = 1
    /\ parked = <<>>

Next == bpm_from_url \/ bpm_from_upload

Spec == Init /\ [][Next]_vars

----------------------------------------------------------------------------
(* The classifier on its own, on every short URL over a small alphabet *)

UrlChars == {"m", "p", "3", "P", ".", "?", "#", "/"}

\* The strings over UrlChars of length up to n.
UrlsUpTo(n) == UNION { [1..k -> UrlChars] : k \in 0..n }

InitClassify ==
    /\ kind = "classify"
    /\ pc = "start"
    /\ url \in UrlsUpTo(MaxUrlLen)
    /\ filename = None
    /\ upload = Unset
    /\ ffmpeg = TRUE
    /\ dirs = <<>>
    /\ workdir = 0
    /\ in_path = <<>>
    /\ direct = None
    /\ pending = NoPending
    /\ resp = NoResp
    /\ calls = <<>>
    /\ acquired = Unset
    /\ exception = None
    /\ classified = None
    /\ info = NoInfo
    /\ running = 1
    /\ parked = <<>>

Classify ==
    /\ kind = "classify" /\ pc = "start"
    /\ classified' = Some(_is_direct_media(url))
    /\ pc' = "done"
    /\ UNCHANGED <<kind, url, filename, upload, ffmpeg, dirs, workdir, in_path,
                   direct, pending, resp, calls, acquired, exception,
                   running, parked, info>>

NextClassify == Classify

SpecClassify == InitClassify /\ [][NextClassify]_vars

----------------------------------------------------------------------------
(* Concurrent requests.  The handlers are coroutines of one event loop, or   *)
(* run in several workers: the steps of the requests in flight interleave in *)
(* any order.  The handler variables hold the state of the request that is   *)
(* taking steps; `parked` holds the state of the others.  The temporary      *)
(* directories, and the host's ffmpeg, are shared by all of them.            *)

\* The local variables of the running handler.
Context ==
    [kind |-> kind, pc |-> pc, url |-> url, filename |-> filename,
     upload |-> upload, workdir |-> workdir, in_path |-> in_path,
     direct |-> direct, pending |-> pending, resp |-> resp, calls |-> calls,
     acquired |-> acquired, exception |-> exception, info |-> info]

\* What is kept of the running handler when another one is resumed: its local
\* variables, or, once it has returned, only which handler it was and the
\* workdir it had.
Suspended ==
    IF pc = "done"
    THEN [kind |-> kind, pc |-> pc, workdir |-> workdir]
    ELSE Context

\* The local variables of a handler that has just been called with request r.
Called(r) ==
    [kind |-> r.kind, pc |-> "start", url |-> r.url, filename |-> r.filename,
     upload |-> r.upload, workdir |-> 0, in_path |-> <<>>, direct |-> None,
     pending |-> NoPending, resp |-> NoResp, calls |-> <<>>, acquired |-> Unset,
     exception |-> None, info |-> NoInfo]

\* The requests in the order they arrive: POST /bpm/url with "a.mp3" and
\* with "v/w", POST /bpm/upload of a wave file named "audio.wav", of another
\* named "b.WAV", and of a file without a name.  MaxRequests requests that
\* arrive one after the other are in flight together.
ConcurrentRequests ==
    << [kind |-> "url", url |-> <<"a",".","m","p","3">>, filename |-> None,
        upload |-> Unset],
       [kind |-> "url", url |-> <<"v","/","w">>, filename |-> None,
        upload |-> Unset],
       [kind |-> "upload", url |-> <<>>, filename |-> Some(AUDIO_WAV),
        upload |-> Wave(1)],
       [kind |-> "upload", url |-> <<>>, filename |-> Some(<<"b",".","W","A","V">>),
        upload |-> Wave(0)],
       [kind |-> "upload", url |-> <<>>, filename |-> None, upload |-> Wave(1)] >>

\* The scheduler leaves the running request where it is and resumes request
\* j, which has not finished.
Switch(j) ==
    /\ j \in DOMAIN parked
    /\ parked[j].pc # "done"
    /\ parked' = [i \in (DOMAIN parked \ {j}) \cup {running} |->
                    IF i = running THEN Suspended ELSE parked[i]]
    /\ running' = j
    /\ kind' = parked[j].kind
    /\ pc' = parked[j].pc
    /\ url' = parked[j].url
    /\ filename' = parked[j].filename
    /\ upload' = parked[j].upload
    /\ workdir' = parked[j].workdir
    /\ in_path' = parked[j].in_path
    /\ direct' = parked[j].direct
    /\ pending' = parked[j].pending
    /\ resp' = parked[j].resp
    /\ calls' = parked[j].calls
    /\ acquired' = parked[j].acquired
    /\ exception' = parked[j].exception
    /\ info' = parked[j].info
    /\ UNCHANGED <<ffmpeg, dirs, classified>>

\* The handlers of MaxRequests consecutive requests have been called; none
\* has taken a step.
InitConcurrent ==
    /\ running = 1
    /\ \E first \in 1..(Len(ConcurrentRequests) - MaxRequests + 1) :
        /\ kind = ConcurrentRequests[first].kind
        /\ url = ConcurrentRequests[first].url
        /\ filename = ConcurrentRequests[first].filename
        /\ upload = ConcurrentRequests[first].upload
        /\ parked = [i \in 2..MaxRequests |->
                        Called(ConcurrentRequests[first + i - 1])]
    /\ pc = "start"
    /\ ffmpeg \in BOOLEAN
    /\ dirs = <<>>
    /\ workdir = 0
    /\ in_path = <<>>
    /\ direct = None
    /\ pending = NoPending
    /\ resp = NoResp
    /\ calls = <<>>
    /\ acquired = Unset
    /\ exception = None
    /\ classified = None
    /\ info = NoInfo

NextConcurrent ==
    \/ bpm_from_url
    \/ bpm_from_upload
    \/ \E j \in 1..MaxRequests : Switch(j)

SpecConcurrent == InitConcurrent /\ [][NextConcurrent]_vars

----------------------------------------------------------------------------
(* What the properties below speak of *)

Done == pc = "done"

Last(q) == q[Len(q)]

\* The handler returned a dict (it did not raise).
Returned == resp.type = "json"

IsFailureBody(body) == "error" \in DOMAIN body /\ "bpm" \notin DOMAIN body

\* The four user-facing messages of the two handlers.
FixedMessages == {MsgLink, MsgNoAudio, MsgFile, MsgTempo}

\* Text t occurs in text d.
Occurs(t, d) ==
    \E i \in 1..(Len(d) + 1) :
        i + Len(t) - 1 <= Len(d) /\ SubSeq(d, i, i + Len(t) - 1) = t

Invoked(op) == \E i \in 1..Len(calls) : calls[i].op = op

InvokedWith(op, res) == \E i \in 1..Len(calls) : calls[i].op = op /\ calls[i].res = res

\* The normalizer was reached: one of its operations was invoked.
NormalizerRan == Invoked("COPY") \/ Invoked("FFMPEG_VERSION") \/ Invoked("FFMPEG")

----------------------------------------------------------------------------
(* C1 *)

\* C1: when a handler has returned or raised, no scratch directory the
\* request created still exists, on any path after tempfile.mkdtemp.
C1_ScratchReleased == Done => DOMAIN dirs = {}

----------------------------------------------------------------------------
(* C2 *)

\* C2: in bpm_from_url the strategy is chosen once by _is_direct_media: a
\* direct url never invokes the extractor, a non-direct url never issues the
\* HEAD or the GET, also after the chosen strategy has failed.
C2_StrategyNeverChanges ==
    /\ direct # None /\ direct[1] => ~Invoked("YTDLP")
    /\ direct # None /\ ~direct[1] => ~Invoked("HEAD") /\ ~Invoked("GET")
    /\ direct = None => ~Invoked("YTDLP") /\ ~Invoked("HEAD") /\ ~Invoked("GET")

\* A direct url whose download failed, the request over.
C2_Witness ==
    /\ Done /\ kind = "url" /\ direct = Some(TRUE)
    /\ calls # <<>> /\ Last(calls).op = "GET" /\ Last(calls).res # "ok"

----------------------------------------------------------------------------
(* C3 *)

\* C3: once a stage operation has reported failure, no later stage operation
\* is invoked in the request, and the response is a failure: it carries an
\* error field and no bpm field.
C3_FailureIsTerminal ==
    /\ \A i \in 1..Len(calls) : calls[i].res # "ok" => i = Len(calls)
    /\ Done /\ calls # <<>> /\ Last(calls).res # "ok"
         => Returned /\ IsFailureBody(resp.body)

\* A transcoder run that failed after the acquisition succeeded.
C3_Witness ==
    /\ Done /\ Len(calls) >= 3
    /\ Last(calls).op = "FFMPEG" /\ Last(calls).res = "fail"
    /\ Returned /\ IsFailureBody(resp.body)

----------------------------------------------------------------------------
(* C4 *)

\* C4, as claimed: every failure response of either handler has a top-level
\* error field that is one of the four fixed messages.
C4_EveryFailureHasFixedError ==
    Done /\ ~(Returned /\ "bpm" \in DOMAIN resp.body)
        => Returned /\ "error" \in DOMAIN resp.body /\ resp.body.error \in FixedMessages

\* C4, amended: every failure response a handler returns has a top-level
\* error field that is one of the four fixed messages, and nothing but error
\* and details; the one failure that is not returned is the HTTP 400 that
\* bpm_from_url raises for an empty url, whose detail carries a fifth message.
C4_ReturnedFailureHasFixedError ==
    Done =>
        /\ resp.type \in {"json", "http_exception"}
        /\ resp.type = "json" /\ "bpm" \notin DOMAIN resp.body
             => /\ "error" \in DOMAIN resp.body
                /\ resp.body.error \in FixedMessages
                /\ DOMAIN resp.body \subseteq {"error", "details"}
        /\ resp.type = "http_exception"
             => /\ kind = "url" /\ url = <<>> /\ calls = <<>>
                /\ resp.status_code = 400
                /\ resp.detail = [error |-> MsgUrlMissing]

\* A returned failure whose details are the transcoder's diagnostic.
C4_Witness ==
    /\ Done /\ Returned /\ IsFailureBody(resp.body)
    /\ "details" \in DOMAIN resp.body
    /\ resp.body.details = <<"Invalid data found when processing input">>

----------------------------------------------------------------------------
(* C5 *)

----------------------------------------------------------------------------
(* C6 *)

\* C6: in bpm_from_url, when the HEAD fails (status >= 400 or a request
\* error), the GET fails, or the extractor fails (non-zero exit, or no audio.*
\* file), the error is the link message and details holds the failure's text.
C6_AcquisitionFailureIsLinkError ==
    /\ Done /\ kind = "url" /\ calls # <<>>
    /\ Last(calls).op \in {"HEAD", "GET", "YTDLP"} /\ Last(calls).res # "ok"
    => /\ Returned /\ IsFailureBody(resp.body)
       /\ resp.body.error = MsgLink
       /\ "details" \in DOMAIN resp.body
       /\ Occurs(Last(calls).text, resp.body.details)

\* The preflight answered 404.
C6_Witness ==
    /\ Done /\ kind = "url" /\ calls # <<>>
    /\ Last(calls) = Call("HEAD", "fail", <<"HTTP ", "404">>)
    /\ Returned /\ resp.body.details = <<"Pré-vérification échouée: ", "HTTP ", "404">>

----------------------------------------------------------------------------
(* C7 *)

\* _analyze_bpm found the decoded waveform empty (line 151).
C7_EmptyWaveformDetected ==
    \E i \in 1..Len(calls) :
        calls[i].op = "ESTIMATE" /\ calls[i].res = "fail" /\ calls[i].text = <<MsgNoAudio>>

\* The normalizer reported success and audio.wav is missing or zero-byte.
C7_NormalizedWavEmpty ==
    /\ InvokedWith("COPY", "ok") \/ InvokedWith("FFMPEG", "ok")
    /\ workdir \in DOMAIN dirs
    /\ \/ AUDIO_WAV \notin DOMAIN dirs[workdir]
       \/ IsZeroByte(dirs[workdir][AUDIO_WAV])

\* C7: when the decoded waveform is empty, or the normalized audio.wav is
\* missing or zero-byte, the handler answers with the no-audio message.
C7_EmptyAudioIsNoAudioError ==
    /\ pc = "finally" /\ pending.type = "return"
    /\ C7_EmptyWaveformDetected \/ C7_NormalizedWavEmpty
    => /\ "error" \in DOMAIN pending.body
       /\ pending.body.error = MsgNoAudio

----------------------------------------------------------------------------
(* C8 *)

\* The messages that say the audio cannot be extracted.
C8_CannotExtractMessages == {MsgLink, MsgFile}

\* C8: when normalization fails because the transcoder is not present, the
\* response is the cannot-extract failure with details exactly "FFmpeg requis
\* pour conversion.", on the direct, the extractor and the upload path.
C8_TranscoderAbsentIsReported ==
    Done /\ InvokedWith("FFMPEG_VERSION", "fail")
    => /\ Returned /\ IsFailureBody(resp.body)
       /\ resp.body.error \in C8_CannotExtractMessages
       /\ "details" \in DOMAIN resp.body
       /\ resp.body.details = TxtFFmpegRequired

----------------------------------------------------------------------------
(* C9 *)

\* The part of u before its first '?' or '#'.
C9_BeforeQuery(u) ==
    LET marks == { i \in 1..Len(u) : u[i] \in {"?", "#"} }
    IN  IF marks = {} THEN u ELSE SubSeq(u, 1, Min(marks) - 1)

\* s ends in one of the recognized extensions, whatever the case.
C9_EndsInMediaExt(s) ==
    \E e \in DIRECT_MEDIA_EXT :
        Len(s) >= Len(e) /\ Lower(SubSeq(s, Len(s) - Len(e) + 1, Len(s))) = e

\* C9: _is_direct_media(url) is True iff the part of url before any query
\* string or fragment ends in a recognized media extension.
C9_DirectIffPathEndsInMediaExt ==
    classified # None => (classified[1] <=> C9_EndsInMediaExt(C9_BeforeQuery(url)))

----------------------------------------------------------------------------
(* C10 *)

\* The acquired media is an uncompressed PCM wave file, on one of the three
\* paths: a direct url that ends in .wav, an extractor output audio.wav, an
\* uploaded file named .wav.
C10_AcquiredIsWave ==
    /\ acquired.fmt = "wav" /\ acquired.enc = "source"
    /\ \/ kind = "url" /\ direct = Some(TRUE) /\ Lower(ExtSearch(url)) = DOT_WAV
       \/ kind = "url" /\ direct = Some(FALSE) /\ in_path = AUDIO_WAV
       \/ kind = "upload" /\ Lower(PathSuffix(in_path)) = DOT_WAV

\* C10: when the acquired media is already a PCM wave file, the normalizer
\* makes audio.wav a byte-identical copy of it and never invokes the
\* transcoder, on the direct, the extractor and the upload path.
C10_WaveIsCopiedVerbatim ==
    C10_AcquiredIsWave /\ NormalizerRan
    => /\ ~Invoked("FFMPEG") /\ ~Invoked("FFMPEG_VERSION")
       /\ InvokedWith("COPY", "ok")
       /\ workdir \in DOMAIN dirs
            => /\ AUDIO_WAV \in DOMAIN dirs[workdir]
               /\ dirs[workdir][AUDIO_WAV] = acquired

----------------------------------------------------------------------------
(* C11 *)

\* The uploaded stream ended with no byte written to in_path (lines 230-235).
C11_EmptyUploadWritten == kind = "upload" /\ acquired = NoBytes

\* C11: in bpm_from_upload, when the uploaded byte stream is empty, so that
\* zero bytes were written to in_path, neither the normalizer nor the tempo
\* estimator is invoked, and the response is exactly the no-audio failure.
C11_EmptyUploadIsNoAudio ==
    C11_EmptyUploadWritten =>
        /\ calls = <<>>
        /\ Done => resp = Json([error |-> MsgNoAudio])

\* An empty upload named a.mp3 was answered.
C11_Witness ==
    /\ Done /\ C11_EmptyUploadWritten
    /\ filename = Some(<<"a",".","m","p","3">>)
    /\ resp = Json([error |-> MsgNoAudio])

----------------------------------------------------------------------------
(* C12 *)

\* The local variables of every request, the running one and the others.
C12_Requests ==
    [i \in DOMAIN parked \cup {running} |->
        IF i = running THEN Context ELSE parked[i]]

\* Request c has created its workdir and has not yet returned.
C12_InFlight(c) == c.workdir # 0 /\ c.pc # "done"

\* No two requests in flight have the same scratch directory.
C12_DistinctScratch ==
    \A i, j \in DOMAIN C12_Requests :
        /\ i # j
        /\ C12_InFlight(C12_Requests[i])
        /\ C12_InFlight(C12_Requests[j])
        => C12_Requests[i].workdir # C12_Requests[j].workdir

\* The scratch directory of a request in flight exists, and the media the
\* request acquired is what the request finds there.
C12_OwnFilesKept ==
    \A i \in DOMAIN C12_Requests :
        LET c == C12_Requests[i]
        IN  C12_InFlight(c) =>
                /\ c.workdir \in DOMAIN dirs
                /\ DOMAIN dirs[c.workdir] \subseteq {INPUT, AUDIO_WAV, c.in_path}
                /\ c.acquired # Unset =>
                      /\ c.in_path \in DOMAIN dirs[c.workdir]
                      /\ dirs[c.workdir][c.in_path] = c.acquired

\* A step of a request creates, writes and removes nothing outside the
\* request's own scratch directory.
C12_OthersUntouched ==
    \A d \in DOMAIN dirs :
        d # workdir => d \in DOMAIN dirs' /\ dirs'[d] = dirs[d]

\* C12: for concurrent requests, url and upload, under any interleaving of
\* their steps, each request in flight has a scratch directory of its own,
\* finds in it the files it wrote itself, and writes and removes nothing
\* outside it.
C12_RequestsAreIsolated ==
    /\ [](C12_DistinctScratch /\ C12_OwnFilesKept)
    /\ [][C12_OthersUntouched]_vars

\* A url request has removed its scratch directory while an upload, which
\* had written its file before, still finds the file in its own.
C12_Witness ==
    /\ kind = "url" /\ Done /\ workdir # 0 /\ calls # <<>>
    /\ \E j \in DOMAIN parked :
        /\ parked[j].kind = "upload" /\ parked[j].pc = "ensure_wav"
        /\ parked[j].workdir \in DOMAIN dirs
        /\ parked[j].workdir # workdir
        /\ dirs[parked[j].workdir][parked[j].in_path] = Wave(1)

----------------------------------------------------------------------------
(* C13 *)

\* The HEAD preflight of the request has completed successfully.
C13_PreflightSucceeded == InvokedWith("HEAD", "ok")

\* C13: in bpm_from_url on a direct-media url, the GET is issued only after
\* the HEAD of the same request has succeeded (status < 400, no request
\* error), and once the HEAD has succeeded the GET is issued, whatever
\* content type and content length the HEAD reported.
C13_DownloadIffPreflightOk ==
    kind = "url" /\ direct = Some(TRUE) =>
        /\ \A i \in 1..Len(calls) :
              calls[i].op = "GET" => i > 1 /\ calls[i - 1] = Call("HEAD", "ok", <<>>)
        /\ C13_PreflightSucceeded /\ pc # "download" => Invoked("GET")
        /\ Invoked("HEAD") /\ ~C13_PreflightSucceeded => ~Invoked("GET")

\* The HEAD reported an html page of unknown length, and the GET was issued.
C13_Witness ==
    /\ kind = "url" /\ direct = Some(TRUE) /\ C13_PreflightSucceeded
    /\ info = [content_type |-> "text/html", content_length |-> ""]
    /\ Invoked("GET")

----------------------------------------------------------------------------
(* C14 *)

\* The external operations of a request: the HEAD preflight, the GET
\* download, the extractor run, the transcoder's conversion, the estimation.
C14_ExternalOperations == {"HEAD", "GET", "YTDLP", "FFMPEG", "ESTIMATE"}

\* How many times op was invoked in the request.
C14_Invocations(op) == Cardinality({ i \in 1..Len(calls) : calls[i].op = op })

\* C14: within one request each external operation is invoked at most once,
\* and after an operation has failed no operation is attempted again.
C14_NoRetry ==
    /\ \A op \in C14_ExternalOperations : C14_Invocations(op) <= 1
    /\ \A i \in 1..Len(calls) :
          calls[i].res # "ok" => \A k \in (i + 1)..Len(calls) : calls[k].op # calls[i].op

\* The extractor ran, the transcoder failed on what it produced, and the
\* request ended there.
C14_Witness ==
    /\ Done /\ Len(calls) = 3
    /\ calls[1].op = "YTDLP" /\ calls[1].res = "ok"
    /\ calls[3].op = "FFMPEG" /\ calls[3].res = "fail"
    /\ C14_Invocations("FFMPEG") = 1

----------------------------------------------------------------------------
(* C15 *)

\* audio.wav exists in the request's workdir and is not zero-byte.
C15_WavNonEmpty ==
    /\ AUDIO_WAV \in DOMAIN dirs[workdir]
    /\ ~IsZeroByte(dirs[workdir][AUDIO_WAV])

\* C15: in both handlers the tempo estimator is invoked only when the
\* normalized audio.wav exists and is not zero-byte, also after a
\* normalization that reported success.
C15_EstimatorInputNonEmpty ==
    Invoked("ESTIMATE") /\ workdir \in DOMAIN dirs => C15_WavNonEmpty

----------------------------------------------------------------------------
(* C16 *)

\* The messages a handler gives when the tool fails outright: the GET
\* (line 191), the extractor (line 200), and the transcoder, whose failure
\* is answered by line 200 after the extractor and by lines 193-196 or
\* 239-242 otherwise.
C16_DownloaderFailureMessages == {MsgLink}

C16_ExtractorFailureMessages == {MsgLink}

C16_TranscoderFailureMessages ==
    IF Invoked("YTDLP")
    THEN {MsgLink}
    ELSE { EnsureWavFailed(IF kind = "url" THEN MsgLink ELSE MsgFile,
                           StrOr(d[1], d[2])).body.error : d \in FfmpegDiagnostics }

\* The transcoder reported success and audio.wav is missing or zero-byte.
C16_TranscoderLeftNothing ==
    /\ InvokedWith("FFMPEG", "ok")
    /\ workdir \in DOMAIN dirs
    /\ \/ AUDIO_WAV \notin DOMAIN dirs[workdir]
       \/ IsZeroByte(dirs[workdir][AUDIO_WAV])

\* C16: a run of the direct downloader, of the extractor or of the
\* transcoder that reports success and produces a zero-byte file is answered
\* with the message that an outright failure of the same tool is answered
\* with, in both handlers.
C16_ZeroByteIsToolFailure ==
    /\ Done /\ Returned /\ InvokedWith("GET", "ok") /\ acquired = NoBytes
         => resp.body.error \in C16_DownloaderFailureMessages
    /\ Done /\ Returned /\ InvokedWith("YTDLP", "ok") /\ acquired = NoBytes
         => resp.body.error \in C16_ExtractorFailureMessages
    /\ pc = "finally" /\ pending.type = "return" /\ C16_TranscoderLeftNothing
         => pending.body.error \in C16_TranscoderFailureMessages

----------------------------------------------------------------------------
(* C17 *)

\* The response is the transcoder-absent one.
C17_ReportsTranscoderAbsent ==
    /\ Returned /\ "details" \in DOMAIN resp.body
    /\ resp.body.details = TxtFFmpegRequired

\* C17: the transcoder-absent failure is reported only when the transcoder
\* is not present; when the transcoder ran and exited non-zero the response
\* is not the transcoder-absent one, whatever the tool wrote, and details
\* holds the tool's diagnostic text.
C17_AbsentOnlyWhenAbsent ==
    /\ Done /\ C17_ReportsTranscoderAbsent => ~_has_ffmpeg
    /\ Done /\ InvokedWith("FFMPEG", "fail") =>
          /\ ~C17_ReportsTranscoderAbsent
          /\ Returned /\ "details" \in DOMAIN resp.body
          /\ Occurs(Last(calls).text, resp.body.details)

----------------------------------------------------------------------------
(* C18 *)

\* The copy of the normalizer found its source and its destination to be
\* the same file.
C18_SameFile ==
    \E i \in 1..Len(calls) :
        calls[i] = Call("COPY", "raise", <<"SameFileError">>)

\* C18: in every request the input handed to _ensure_wav is another path
\* than its output workdir/audio.wav, for every upload filename and every
\* extension the extractor chose, and the normalization does not fail
\* because the two are the same file.
C18_InputIsNotOutput ==
    NormalizerRan => in_path # AUDIO_WAV /\ ~C18_SameFile

====
